---- MODULE Spec2Model ----
(***************************************************************************)
(* Model of scripts/evaluate-hubspot-categorizer.py: the paginated loader, *)
(* the per-subcategory sampler, the batched embedding fetcher, classify    *)
(* (retry, filtering, majority vote) and the evaluation driver of main     *)
(* (thread pool, as_completed drain, aggregates, summary).                 *)
(*                                                                         *)
(* Python values: strings are TLA+ strings, None is the value None below,  *)
(* lists are sequences, the result tuple of classify is a record.  A raw   *)
(* text field of the store is None or a sequence of tokens, a token being  *)
(* a blank (" ") or a word, so that str.strip() has something to remove.   *)
(***************************************************************************)
EXTENDS Integers, Sequences, FiniteSets, TLC

VARIABLES
  args,         \* parsed command line: full, sample_per_sub, max_workers
  store,        \* rows of training_conversations, in id order
  pc,           \* position of the main thread
  offset,       \* fetch_labeled_metadata: offset
  items,        \* fetch_labeled_metadata: items, then main: labeled
  sample,       \* main: sample
  chunkStart,   \* fetch_embeddings_for_ids: i
  embeddings,   \* fetch_embeddings_for_ids: out, then main: embeddings
  requests,     \* log of the bulk GET requests issued, in order
  tasks,        \* main: futures, one classify call each
  workers,      \* the tasks the pool threads are running, one thread each
  total, errors, correct_sub, correct_cat,
  conf, cat_conf,
  drained,      \* log of the futures as_completed has yielded, in order
  summary,      \* main: summary, None until computed
  files         \* names of the report files written

vars == <<args, store, pc, offset, items, sample, chunkStart, embeddings,
          requests, tasks, workers, total, errors, correct_sub, correct_cat,
          conf, cat_conf, drained, summary, files>>

loaderVars == <<offset, items>>
embedVars  == <<chunkStart, embeddings>>
poolVars   == <<tasks, workers>>
aggVars    == <<total, errors, correct_sub, correct_cat, conf, cat_conf, drained>>
outVars    == <<summary, files>>

-----------------------------------------------------------------------------
(* Bounds of the model *)

MaxRows == 4        \* rows in the store
PageSize == 2       \* batch_size of fetch_labeled_metadata (1000 in the code)
EmbBatch == 2       \* batch_size of fetch_embeddings_for_ids (200 in main)
MaxPerSub == 1      \* largest --sample-per-sub tried
MaxWorkers == 2     \* largest --max-workers tried
MaxMatches == 6     \* longest match list the similarity endpoint returns

(* Program constants *)

MaxAttempts == 3    \* for attempt in range(3)
TopK == 5           \* results[:5]
Seed == 7           \* sample_by_subcategory(items, per_sub, seed=7)

-----------------------------------------------------------------------------
(* Python values *)

None == "<None>"

\* Python truthiness of None, "" and the empty list (written "[]").
Truthy(v) == v \notin {None, "", "[]"}

Range(s) == {s[i] : i \in 1..Len(s)}

Min(a, b) == IF a <= b THEN a ELSE b

\* s[a:b] of a Python list, 0-based, end clipped to len(s) as slicing does.
Slice(s, a, b) == SubSeq(s, a + 1, Min(b, Len(s)))

WS == " "

RECURSIVE LStrip(_)
LStrip(t) == IF t # <<>> /\ Head(t) = WS THEN LStrip(Tail(t)) ELSE t

RECURSIVE RStrip(_)
RStrip(t) ==
  IF t # <<>> /\ t[Len(t)] = WS THEN RStrip(SubSeq(t, 1, Len(t) - 1)) ELSE t

RECURSIVE Join(_)
Join(t) == IF t = <<>> THEN "" ELSE Head(t) \o Join(Tail(t))

\* (raw or "").strip()
StripOrEmpty(raw) == IF raw = None THEN "" ELSE Join(RStrip(LStrip(raw)))

-----------------------------------------------------------------------------
(* The remote store *)

Vec == "[0.1,0.2]"

\* Row i of the store.  Rows 1 and 2 are the same subcategory with a padded
\* label and a blank category, row 3 has no subcategory, row 4 no embedding.
CatalogueRow(i) ==
  LET k == ((i - 1) % 6) + 1 IN
  CASE k = 1 -> [id |-> i, category |-> <<"Sales">>, subcategory |-> <<"Pricing">>, embedding |-> Vec]
    [] k = 2 -> [id |-> i, category |-> <<WS>>, subcategory |-> <<WS, "Pricing", WS>>, embedding |-> Vec]
    [] k = 3 -> [id |-> i, category |-> <<"Support">>, subcategory |-> None, embedding |-> Vec]
    [] k = 4 -> [id |-> i, category |-> <<"Support">>, subcategory |-> <<"Bug">>, embedding |-> None]
    [] k = 5 -> [id |-> i, category |-> None, subcategory |-> <<"Bug", WS>>, embedding |-> Vec]
    [] OTHER -> [id |-> i, category |-> <<"Sales">>, subcategory |-> <<WS, WS>>, embedding |-> "[]"]

Stores == {[i \in 1..n |-> CatalogueRow(i)] : n \in 0..MaxRows}

\* The command lines tried: --full (which ignores --sample-per-sub), or a
\* per-subcategory count, 0 meaning all.
ArgSets ==
  [full : {TRUE}, sample_per_sub : {0}, max_workers : 1..MaxWorkers]
  \cup [full : {FALSE}, sample_per_sub : 0..MaxPerSub, max_workers : 1..MaxWorkers]

-----------------------------------------------------------------------------
(* fetch_labeled_metadata *)

\* The page the store answers for limit and offset, ordered by id.
Page(rows, off, limit) == Slice(rows, off, off + limit)

\* The record built from one row; the caller skips rows with an empty sub.
LabeledRecord(row) ==
  LET cat == StripOrEmpty(row.category) IN
  [id |-> row.id,
   category |-> IF cat = "" THEN "General" ELSE cat,
   subcategory |-> StripOrEmpty(row.subcategory)]

RECURSIVE AppendLabeled(_, _)
AppendLabeled(acc, rows) ==
  IF rows = <<>> THEN acc
  ELSE LET rec == LabeledRecord(Head(rows)) IN
       AppendLabeled(IF rec.subcategory = "" THEN acc ELSE Append(acc, rec),
                     Tail(rows))

-----------------------------------------------------------------------------
(* sample_by_subcategory *)

\* The keys of by_sub in insertion order: each label at its first occurrence.
RECURSIVE FirstSeen(_, _)
FirstSeen(acc, labels) ==
  IF labels = <<>> THEN acc
  ELSE FirstSeen(IF Head(labels) \in Range(acc) THEN acc ELSE Append(acc, Head(labels)),
                 Tail(labels))

GroupKeys(its) == FirstSeen(<<>>, [i \in 1..Len(its) |-> its[i].subcategory])

\* by_sub[sub]: the records of the subcategory, in input order.
SelectSub(its, sub) == SelectSeq(its, LAMBDA c : c.subcategory = sub)

\* random.Random: the generator is a deterministic function of its state; a
\* linear congruential step stands for the Mersenne Twister step.
RngInit(seed) == seed % 65537

RngNext(st) == (st * 75 + 74) % 65537

\* Mutant: the drawn record stays in the pool.
RECURSIVE SamplePoolReplacing(_, _, _, _)
SamplePoolReplacing(st, pool, left, acc) ==
  IF left = 0 THEN [result |-> acc, state |-> st]
  ELSE LET nxt == RngNext(st)
           j   == (nxt % Len(pool)) + 1
       IN SamplePoolReplacing(nxt, pool, left - 1, Append(acc, pool[j]))

\* rng.sample(rows, k) for a small population: k draws from a shrinking pool,
\* result[i] = pool[j]; pool[j] = pool[n-i-1].
RECURSIVE SamplePool(_, _, _, _)
SamplePool(st, pool, left, acc) ==
  IF left = 0 THEN [result |-> acc, state |-> st]
  ELSE LET nxt == RngNext(st)
           n   == Len(pool)
           j   == (nxt % n) + 1
       IN SamplePool(nxt,
                     SubSeq([pool EXCEPT ![j] = pool[n]], 1, n - 1),
                     left - 1,
                     Append(acc, pool[j]))

RngSample(st, rows, k) == SamplePool(st, rows, k, <<>>)

RECURSIVE SampleGroups(_, _, _, _, _)
SampleGroups(st, its, keys, per_sub, sampled) ==
  IF keys = <<>> THEN sampled
  ELSE LET rows == SelectSub(its, Head(keys)) IN
       IF per_sub <= 0 \/ Len(rows) <= per_sub
       THEN SampleGroups(st, its, Tail(keys), per_sub, sampled \o rows)
       ELSE LET d == RngSample(st, rows, per_sub) IN
            SampleGroups(d.state, its, Tail(keys), per_sub, sampled \o d.result)

sample_by_subcategory(its, per_sub, seed) ==
  SampleGroups(RngInit(seed), its, GroupKeys(its), per_sub, <<>>)

-----------------------------------------------------------------------------
(* fetch_embeddings_for_ids *)

\* The rows the store answers for id=in.(chunk), select=id,embedding.
EmbeddingRows(rows, chunk) ==
  SelectSeq([i \in 1..Len(rows) |-> [id |-> rows[i].id, embedding |-> rows[i].embedding]],
            LAMBDA row : row.id \in Range(chunk))

\* Mutant: every returned row is stored, whatever its embedding.
RECURSIVE PutEmbeddingsAll(_, _)
PutEmbeddingsAll(out, rows) ==
  IF rows = <<>> THEN out
  ELSE LET row == Head(rows) IN
       PutEmbeddingsAll([i \in DOMAIN out \cup {row.id} |->
                           IF i = row.id THEN row.embedding ELSE out[i]],
                        Tail(rows))

\* for row in rows: if row.get("embedding"): out[row["id"]] = row["embedding"]
RECURSIVE PutEmbeddings(_, _)
PutEmbeddings(out, rows) ==
  IF rows = <<>> THEN out
  ELSE LET row == Head(rows) IN
       PutEmbeddings(IF Truthy(row.embedding)
                     THEN [i \in DOMAIN out \cup {row.id} |->
                             IF i = row.id THEN row.embedding ELSE out[i]]
                     ELSE out,
                     Tail(rows))

\* embeddings.get(id)
EmbeddingGet(out, id) == IF id \in DOMAIN out THEN out[id] ELSE None

-----------------------------------------------------------------------------
(* classify: the vote *)

\* A key missing from a match's metadata.
Absent == "<absent>"

\* metadata.get(key, default)
MetaGet(md, key, default) == IF md[key] = Absent THEN default ELSE md[key]

\* results = [m for m in results if m.get("id") != conv["id"]]
FilterSelf(results, conv) == SelectSeq(results, LAMBDA m : m.id # conv.id)

\* results = [m for m in results if m.get("metadata", {}).get("subcategory")]
FilterLabeled(results) ==
  SelectSeq(results, LAMBDA m : Truthy(MetaGet(m.metadata, "subcategory", None)))

\* Mutant: the list is cut to five before it is filtered.
TopCutFirst(results, conv) ==
  FilterLabeled(FilterSelf(Slice(results, 0, TopK), conv))

\* top = results[:5], after both filters
Top(results, conv) == Slice(FilterLabeled(FilterSelf(results, conv)), 0, TopK)

\* A Counter is the sequence of its (key, count) entries in insertion order.
KeyIndex(counter, key) ==
  IF \E i \in 1..Len(counter) : counter[i].key = key
  THEN CHOOSE i \in 1..Len(counter) : counter[i].key = key
  ELSE 0

\* counter[key] += 1
CounterAdd(counter, key) ==
  LET i == KeyIndex(counter, key) IN
  IF i = 0 THEN Append(counter, [key |-> key, n |-> 1])
  ELSE [counter EXCEPT ![i].n = @ + 1]

RECURSIVE CountLabels(_, _, _, _)
CountLabels(counter, top, key, default) ==
  IF top = <<>> THEN counter
  ELSE CountLabels(CounterAdd(counter, MetaGet(Head(top).metadata, key, default)),
                   Tail(top), key, default)

\* Mutant: a later entry with an equal count replaces the best one.
RECURSIVE MaxEntryLast(_, _)
MaxEntryLast(best, rest) ==
  IF rest = <<>> THEN best
  ELSE MaxEntryLast(IF Head(rest).n >= best.n THEN Head(rest) ELSE best, Tail(rest))

\* The running maximum of max(counter.items(), key=count): a later entry
\* replaces the best one only when its count is strictly larger.
RECURSIVE MaxEntry(_, _)
MaxEntry(best, rest) ==
  IF rest = <<>> THEN best
  ELSE MaxEntry(IF Head(rest).n > best.n THEN Head(rest) ELSE best, Tail(rest))

\* counter.most_common(1)[0][0], for a non-empty counter
MostCommonKey(counter) == MaxEntry(Head(counter), Tail(counter)).key

\* The result tuple (conv, pred_cat, pred_sub, err).
Result(conv, pred_cat, pred_sub, err) ==
  [conv |-> conv, pred_cat |-> pred_cat, pred_sub |-> pred_sub, err |-> err]

\* The marker returned with the fallback prediction when top is empty.
NoMatchesTag == "no_matches"

\* Mutant: the category is voted among the matches of the winning subcategory.
VoteCategoryOfWinner(conv, body) ==
  LET top == Top(body, conv) IN
  IF top = <<>> THEN Result(conv, "General", "Other", NoMatchesTag)
  ELSE LET sub == MostCommonKey(CountLabels(<<>>, top, "subcategory", "Other"))
           won == SelectSeq(top, LAMBDA m : m.metadata.subcategory = sub)
       IN Result(conv,
                 MostCommonKey(CountLabels(<<>>, won, "category", "General")),
                 sub,
                 None)

\* classify from "results = r.json()" on.
Vote(conv, body) ==
  LET top == Top(body, conv) IN
  IF top = <<>> THEN Result(conv, "General", "Other", NoMatchesTag)
  ELSE Result(conv,
              MostCommonKey(CountLabels(<<>>, top, "category", "General")),
              MostCommonKey(CountLabels(<<>>, top, "subcategory", "Other")),
              None)

\* Mutant: the status of the response is not looked at.
OnResponseAnyStatus(conv, r) == Vote(conv, r.body)

\* classify once a response r has been obtained.
OnResponse(conv, r) ==
  IF r.status_code # 200
  THEN Result(conv, None, None, "error:" \o ToString(r.status_code))
  ELSE Vote(conv, r.body)

\* classify when the last attempt raised exc.
OnExhausted(conv, exc) == Result(conv, None, None, "exception:" \o exc)

\* classify when the loop ends without a response: "if r is None".
OnNoResponse(conv) == Result(conv, None, None, "no_response")

\* Mutant: "if attempt < 3", the last attempt sleeps too.
CanRetryLast(attempt) == attempt < 3

\* "if attempt < 2": sleep and try again.
CanRetry(attempt) == attempt < 2

-----------------------------------------------------------------------------
(* The similarity endpoint *)

Match(id, cat, sub) ==
  [id |-> id, metadata |-> [category |-> cat, subcategory |-> sub]]

\* The matches the endpoint may return for conv: conv itself, a neighbour
\* without subcategory, labelled neighbours, a neighbour without category.
MatchKinds(conv) ==
  LET other == 0 IN
  {Match(conv.id, "Sales", "Pricing"),
   Match(other, "Sales", Absent),
   Match(other, "Sales", "Pricing"),
   Match(other, "Support", "Bug"),
   Match(other, Absent, "Bug")}

\* Every match list of at most MaxMatches matches.
AllBodies(conv) == UNION {[1..n -> MatchKinds(conv)] : n \in 0..MaxMatches}

\* The match lists tried in whole runs of the evaluation.
RunBodies(conv) ==
  {<<Match(conv.id, "Sales", "Pricing")>>,
   <<Match(0, "Sales", "Pricing")>>,
   <<Match(0, "Support", "Bug")>>}

Response(status, body) == [status_code |-> status, body |-> body]

\* Statuses of a failed query.
FailureStatuses == {404, 500}

\* The failure status tried in whole runs of the evaluation.
RunStatuses == {500}

Responses(statuses, bodies) ==
  {Response(st, <<>>) : st \in statuses}
  \cup {Response(200, b) : b \in bodies}

\* Subclasses of requests.RequestException.
ExcKinds == {"ConnectionError", "Timeout"}

-----------------------------------------------------------------------------
(* State of the run.  An optional value is <<>> (None) or <<v>>. *)

NewTask(conv) ==
  [conv |-> conv, state |-> "pending", attempt |-> 0, posts |-> 0,
   sleeps |-> <<>>, exc |-> <<>>, r |-> <<>>, result |-> <<>>]

Init ==
  /\ args \in ArgSets
  /\ store \in Stores
  /\ pc = "load"
  /\ offset = 0
  /\ items = <<>>
  /\ sample = <<>>
  /\ chunkStart = 0
  /\ embeddings = <<>>
  /\ requests = <<>>
  /\ tasks = <<>>
  /\ workers = {}
  /\ total = 0
  /\ errors = 0
  /\ correct_sub = 0
  /\ correct_cat = 0
  /\ conf = <<>>
  /\ cat_conf = <<>>
  /\ drained = <<>>
  /\ summary = <<>>
  /\ files = <<>>

Request(kind, at, ok) == [kind |-> kind, at |-> at, ok |-> ok]

-----------------------------------------------------------------------------
(* main: labeled = fetch_labeled_metadata(key) *)

\* Mutant: the page is measured after the rows without subcategory are dropped.
FetchPageCountsLabeled ==
  /\ pc = "load"
  /\ requests' = Append(requests, Request("page", offset, TRUE))
  /\ LET kept == AppendLabeled(<<>>, Page(store, offset, PageSize)) IN
     IF kept = <<>>
     THEN /\ pc' = "sample"
          /\ UNCHANGED loaderVars
     ELSE /\ items' = items \o kept
          /\ IF Len(kept) < PageSize
             THEN pc' = "sample" /\ offset' = offset
             ELSE pc' = "load" /\ offset' = offset + PageSize
  /\ UNCHANGED <<args, store, sample, embedVars, poolVars, aggVars, outVars>>

\* One iteration of the while loop whose GET succeeds.
FetchPage ==
  /\ pc = "load"
  /\ requests' = Append(requests, Request("page", offset, TRUE))
  /\ LET rows == Page(store, offset, PageSize) IN
     IF rows = <<>>
     THEN /\ pc' = "sample"
          /\ UNCHANGED loaderVars
     ELSE /\ items' = AppendLabeled(items, rows)
          /\ IF Len(rows) < PageSize
             THEN pc' = "sample" /\ offset' = offset
             ELSE pc' = "load" /\ offset' = offset + PageSize
  /\ UNCHANGED <<args, store, sample, embedVars, poolVars, aggVars, outVars>>

\* requests.get or resp.raise_for_status() raises: nothing catches it.
FetchPageFails ==
  /\ pc = "load"
  /\ requests' = Append(requests, Request("page", offset, FALSE))
  /\ pc' = "aborted"
  /\ UNCHANGED <<args, store, loaderVars, sample, embedVars, poolVars, aggVars, outVars>>

(* main: sample = labeled or sample_by_subcategory(labeled, per_sub) *)
Sample ==
  /\ pc = "sample"
  /\ sample' = IF args.full THEN items
               ELSE sample_by_subcategory(items, args.sample_per_sub, Seed)
  /\ pc' = IF sample' = <<>> THEN "dispatch" ELSE "embed"
  /\ UNCHANGED <<args, store, loaderVars, embedVars, requests, poolVars, aggVars, outVars>>

(* main: embeddings = fetch_embeddings_for_ids(key, id_list, batch_size) *)

IdList(smp) == [i \in 1..Len(smp) |-> smp[i].id]

\* One iteration of the for loop whose GET succeeds.
FetchEmbBatch ==
  /\ pc = "embed"
  /\ LET chunk == Slice(IdList(sample), chunkStart, chunkStart + EmbBatch) IN
     /\ requests' = Append(requests, Request("embedding", chunkStart, TRUE))
     /\ embeddings' = PutEmbeddings(embeddings, EmbeddingRows(store, chunk))
     /\ chunkStart' = chunkStart + EmbBatch
     /\ pc' = IF chunkStart' < Len(sample) THEN "embed" ELSE "dispatch"
  /\ UNCHANGED <<args, store, loaderVars, sample, poolVars, aggVars, outVars>>

\* Mutant: a failed batch is skipped and the fetch goes on.
FetchEmbBatchSkipped ==
  /\ pc = "embed"
  /\ requests' = Append(requests, Request("embedding", chunkStart, FALSE))
  /\ chunkStart' = chunkStart + EmbBatch
  /\ pc' = IF chunkStart' < Len(sample) THEN "embed" ELSE "dispatch"
  /\ UNCHANGED <<args, store, loaderVars, sample, embeddings, poolVars, aggVars, outVars>>

\* requests.get or resp.raise_for_status() raises: nothing catches it.
FetchEmbBatchFails ==
  /\ pc = "embed"
  /\ requests' = Append(requests, Request("embedding", chunkStart, FALSE))
  /\ pc' = "aborted"
  /\ UNCHANGED <<args, store, loaderVars, sample, embedVars, poolVars, aggVars, outVars>>

-----------------------------------------------------------------------------
(* main: attach the embeddings, drop the records without one, submit *)

\* Mutant: the records without embedding are kept.
WithEmbeddingUnfiltered(smp, out) ==
  [i \in 1..Len(smp) |->
     [id |-> smp[i].id, category |-> smp[i].category,
      subcategory |-> smp[i].subcategory,
      embedding |-> EmbeddingGet(out, smp[i].id)]]

WithEmbedding(smp, out) ==
  SelectSeq([i \in 1..Len(smp) |->
               [id |-> smp[i].id, category |-> smp[i].category,
                subcategory |-> smp[i].subcategory,
                embedding |-> EmbeddingGet(out, smp[i].id)]],
            LAMBDA c : Truthy(c.embedding))

Dispatch ==
  /\ pc = "dispatch"
  /\ sample' = WithEmbedding(sample, embeddings)
  /\ tasks' = [i \in 1..Len(sample') |-> NewTask(sample'[i])]
  /\ pc' = IF sample' = <<>> THEN "summarize" ELSE "drain"
  /\ UNCHANGED <<args, store, loaderVars, embedVars, requests, workers, aggVars, outVars>>

-----------------------------------------------------------------------------
(* The pool threads running classify *)

Pending == {t \in 1..Len(tasks) : tasks[t].state = "pending"}

\* The work queue is first in, first out.
NextPending == CHOOSE t \in Pending : \A u \in Pending : t <= u

\* Mutant: a thread that finished a task takes no other.
ReleaseNever(t) == workers

\* The thread that ran t goes back to the work queue.
Release(t) == workers \ {t}

\* Mutant: a thread sleeping in a backoff counts as idle.
IdleThreadWhileSleeping ==
  Cardinality({t \in workers : tasks[t].state = "running"}) < args.max_workers

\* One of the max_workers threads is idle.
IdleThread == Cardinality(workers) < args.max_workers

\* An idle thread takes the next work item and enters classify.
Start ==
  /\ IdleThread
  /\ Pending # {}
  /\ tasks' = [tasks EXCEPT ![NextPending].state = "running"]
  /\ workers' = workers \cup {NextPending}
  /\ UNCHANGED <<args, store, pc, loaderVars, sample, embedVars, requests, aggVars, outVars>>

\* Mutant: a constant backoff.
BackoffFlat(attempt) == 1

\* time.sleep(1 + attempt)
Backoff(attempt) == 1 + attempt

\* requests.post raises exc: sleep and retry, or give up on the last attempt.
PostRaises(t, exc) ==
  /\ tasks[t].state = "running"
  /\ LET task == tasks[t]
         seen == [task EXCEPT !.posts = @ + 1, !.exc = <<exc>>]
     IN IF CanRetry(task.attempt)
        THEN /\ tasks' = [tasks EXCEPT ![t] =
                            [seen EXCEPT !.state = "sleeping",
                                         !.sleeps = Append(@, Backoff(task.attempt))]]
             /\ UNCHANGED workers
        ELSE /\ tasks' = [tasks EXCEPT ![t] =
                            [seen EXCEPT !.state = "done",
                                         !.result = <<OnExhausted(task.conv, exc)>>]]
             /\ workers' = Release(t)
  /\ UNCHANGED <<args, store, pc, loaderVars, sample, embedVars, requests, aggVars, outVars>>

\* The sleep ends: continue with the next value of range(3); when the range
\* is exhausted the loop ends with r still None.
Wake(t) ==
  /\ tasks[t].state = "sleeping"
  /\ IF tasks[t].attempt + 1 < MaxAttempts
     THEN /\ tasks' = [tasks EXCEPT ![t].state = "running", ![t].attempt = @ + 1,
                                    ![t].exc = <<>>]
          /\ UNCHANGED workers
     ELSE /\ tasks' = [tasks EXCEPT ![t].state = "done", ![t].exc = <<>>,
                                    ![t].result = <<OnNoResponse(tasks[t].conv)>>]
          /\ workers' = Release(t)
  /\ UNCHANGED <<args, store, pc, loaderVars, sample, embedVars, requests, aggVars, outVars>>

\* Mutant: the thread counts its own result when classify returns.
PostRespondsCounts(t, r) ==
  /\ tasks[t].state = "running"
  /\ tasks' = [tasks EXCEPT ![t].posts = @ + 1,
                            ![t].r = <<r>>,
                            ![t].state = "done",
                            ![t].result = <<OnResponse(tasks[t].conv, r)>>]
  /\ workers' = Release(t)
  /\ total' = total + 1
  /\ UNCHANGED <<args, store, pc, loaderVars, sample, embedVars, requests,
                 errors, correct_sub, correct_cat, conf, cat_conf, drained, outVars>>

\* requests.post returns r: break, and classify runs to its return.
PostResponds(t, r) ==
  /\ tasks[t].state = "running"
  /\ tasks' = [tasks EXCEPT ![t].posts = @ + 1,
                            ![t].r = <<r>>,
                            ![t].state = "done",
                            ![t].result = <<OnResponse(tasks[t].conv, r)>>]
  /\ workers' = Release(t)
  /\ UNCHANGED <<args, store, pc, loaderVars, sample, embedVars, requests, aggVars, outVars>>

-----------------------------------------------------------------------------
(* main: the loop over as_completed(futures) *)

\* counter[true][pred] += 1 on a defaultdict(Counter), as a function on pairs.
ConfAdd(table, true, pred) ==
  IF <<true, pred>> \in DOMAIN table
  THEN [table EXCEPT ![<<true, pred>>] = @ + 1]
  ELSE [k \in DOMAIN table \cup {<<true, pred>>} |->
          IF k = <<true, pred>> THEN 1 ELSE table[k]]

\* "if err:" on the fourth element of the result tuple.
IsError(res) == Truthy(res.err)

\* Mutant: the "continue" of the error branch is missing.
TallyNoContinue(agg, res) ==
  [agg EXCEPT
     !.total = @ + 1,
     !.errors = IF IsError(res) THEN @ + 1 ELSE @,
     !.correct_sub = IF res.pred_sub = res.conv.subcategory THEN @ + 1 ELSE @,
     !.correct_cat = IF res.pred_cat = res.conv.category THEN @ + 1 ELSE @,
     !.conf = ConfAdd(@, res.conv.subcategory, res.pred_sub),
     !.cat_conf = ConfAdd(@, res.conv.category, res.pred_cat)]

\* Mutant: an error resets the count of correct subcategories.
TallyResetOnError(agg, res) ==
  IF IsError(res)
  THEN [agg EXCEPT !.total = @ + 1, !.errors = @ + 1, !.correct_sub = 0]
  ELSE [agg EXCEPT
          !.total = @ + 1,
          !.correct_sub = IF res.pred_sub = res.conv.subcategory THEN @ + 1 ELSE @,
          !.correct_cat = IF res.pred_cat = res.conv.category THEN @ + 1 ELSE @,
          !.conf = ConfAdd(@, res.conv.subcategory, res.pred_sub),
          !.cat_conf = ConfAdd(@, res.conv.category, res.pred_cat)]

\* The body of the loop for one result, on the aggregates agg.
Tally(agg, res) ==
  IF IsError(res)
  THEN [agg EXCEPT !.total = @ + 1, !.errors = @ + 1]
  ELSE [agg EXCEPT
          !.total = @ + 1,
          !.correct_sub = IF res.pred_sub = res.conv.subcategory THEN @ + 1 ELSE @,
          !.correct_cat = IF res.pred_cat = res.conv.category THEN @ + 1 ELSE @,
          !.conf = ConfAdd(@, res.conv.subcategory, res.pred_sub),
          !.cat_conf = ConfAdd(@, res.conv.category, res.pred_cat)]

Aggregates ==
  [total |-> total, errors |-> errors, correct_sub |-> correct_sub,
   correct_cat |-> correct_cat, conf |-> conf, cat_conf |-> cat_conf]

\* as_completed yields a finished future it has not yielded yet.
Drain(t) ==
  /\ pc = "drain"
  /\ tasks[t].state = "done"
  /\ t \notin Range(drained)
  /\ LET agg == Tally(Aggregates, tasks[t].result[1]) IN
     /\ total' = agg.total
     /\ errors' = agg.errors
     /\ correct_sub' = agg.correct_sub
     /\ correct_cat' = agg.correct_cat
     /\ conf' = agg.conf
     /\ cat_conf' = agg.cat_conf
  /\ drained' = Append(drained, t)
  /\ pc' = IF Len(drained') = Len(tasks) THEN "summarize" ELSE "drain"
  /\ UNCHANGED <<args, store, loaderVars, sample, embedVars, requests, poolVars, outVars>>

-----------------------------------------------------------------------------
(* main: the summary *)

\* a / b as the fraction it denotes; b = 0 is Python's ZeroDivisionError.
Ratio(a, b) == [num |-> a, den |-> b]

\* Mutant: the division is not guarded.
AccuracyUnguarded(correct, tot) == Ratio(correct, tot)

\* correct / total if total else 0
Accuracy(correct, tot) == IF tot # 0 THEN Ratio(correct, tot) ELSE Ratio(0, 1)

Summarize ==
  /\ pc = "summarize"
  /\ LET acc_sub == Accuracy(correct_sub, total)
         acc_cat == Accuracy(correct_cat, total)
     IN IF acc_sub.den = 0 \/ acc_cat.den = 0
        THEN /\ pc' = "aborted"
             /\ UNCHANGED outVars
        ELSE /\ summary' = <<[sample_size |-> total, errors |-> errors,
                              accuracy_sub |-> acc_sub, accuracy_cat |-> acc_cat]>>
             /\ files' = <<"hubspot_eval_summary.json", "hubspot_eval_confusion.json">>
             /\ pc' = "done"
  /\ UNCHANGED <<args, store, loaderVars, sample, embedVars, requests, poolVars, aggVars>>

-----------------------------------------------------------------------------
(* The whole run *)

TaskIds == 1..Len(tasks)

\* The tasks about to call requests.post.
Running == {t \in TaskIds : tasks[t].state = "running"}

Next ==
  \/ FetchPage
  \/ FetchPageFails
  \/ Sample
  \/ FetchEmbBatch
  \/ FetchEmbBatchFails
  \/ Dispatch
  \/ Start
  \/ \E t \in Running, exc \in ExcKinds : PostRaises(t, exc)
  \/ \E t \in Running : \E r \in Responses(RunStatuses, RunBodies(tasks[t].conv)) : PostResponds(t, r)
  \/ \E t \in TaskIds : Wake(t)
  \/ \E t \in TaskIds : Drain(t)
  \/ Summarize

Spec == Init /\ [][Next]_vars

-----------------------------------------------------------------------------
(* One classify call on its own: the run of a one-row store up to the      *)
(* submission of its single task, the endpoint then answering any match    *)
(* list of at most MaxMatches matches.                                     *)

ProbeStore == [i \in 1..1 |-> CatalogueRow(i)]

ProbeEmbeddings == PutEmbeddings(<<>>, EmbeddingRows(ProbeStore, <<1>>))

ProbeSample == WithEmbedding(AppendLabeled(<<>>, ProbeStore), ProbeEmbeddings)

InitClassify ==
  /\ args = [full |-> TRUE, sample_per_sub |-> 0, max_workers |-> 1]
  /\ store = ProbeStore
  /\ pc = "drain"
  /\ offset = 0
  /\ items = AppendLabeled(<<>>, ProbeStore)
  /\ sample = ProbeSample
  /\ chunkStart = EmbBatch
  /\ embeddings = ProbeEmbeddings
  /\ requests = <<Request("page", 0, TRUE), Request("embedding", 0, TRUE)>>
  /\ tasks = [i \in 1..Len(ProbeSample) |-> NewTask(ProbeSample[i])]
  /\ workers = {}
  /\ total = 0
  /\ errors = 0
  /\ correct_sub = 0
  /\ correct_cat = 0
  /\ conf = <<>>
  /\ cat_conf = <<>>
  /\ drained = <<>>
  /\ summary = <<>>
  /\ files = <<>>

NextClassify ==
  \/ Start
  \/ \E t \in Running, exc \in ExcKinds : PostRaises(t, exc)
  \/ \E t \in Running : \E r \in Responses(FailureStatuses, AllBodies(tasks[t].conv)) : PostResponds(t, r)
  \/ \E t \in TaskIds : Wake(t)

ClassifySpec == InitClassify /\ [][NextClassify]_vars

\* The run is fair: every thread keeps running, every sleep ends and every
\* request returns or times out.
LiveSpec == Spec /\ WF_vars(Next)

-----------------------------------------------------------------------------
(* The loader and the sampler on their own: the run up to the sample, on   *)
(* every store of at most MaxRows rows of the catalogued kinds, in any     *)
(* order, and every --sample-per-sub from -1 to MaxPerSub + 1.             *)

\* A row of kind k stored under id i.
RowOfKind(i, k) == [CatalogueRow(k) EXCEPT !.id = i]

\* The kinds of the rows of a store, row by row.
KindLists == UNION {[1..n -> 1..6] : n \in 0..MaxRows}

StoreOfKinds(kinds) == [i \in 1..Len(kinds) |-> RowOfKind(i, kinds[i])]

IntakeArgs ==
  [full : {FALSE}, sample_per_sub : (-1)..(MaxPerSub + 1), max_workers : {1}]

InitIntake ==
  /\ args \in IntakeArgs
  /\ \E kinds \in KindLists : store = StoreOfKinds(kinds)
  /\ pc = "load"
  /\ offset = 0
  /\ items = <<>>
  /\ sample = <<>>
  /\ chunkStart = 0
  /\ embeddings = <<>>
  /\ requests = <<>>
  /\ tasks = <<>>
  /\ workers = {}
  /\ total = 0
  /\ errors = 0
  /\ correct_sub = 0
  /\ correct_cat = 0
  /\ conf = <<>>
  /\ cat_conf = <<>>
  /\ drained = <<>>
  /\ summary = <<>>
  /\ files = <<>>

NextIntake ==
  \/ FetchPage
  \/ FetchPageFails
  \/ Sample

IntakeSpec == InitIntake /\ [][NextIntake]_vars

\* Every request returns or fails: the loader keeps running.
IntakeLive == IntakeSpec /\ WF_vars(NextIntake)

-----------------------------------------------------------------------------
(* Vocabulary of the properties, stated on the endpoint's answer itself.   *)

Done == {t \in TaskIds : tasks[t].state = "done"}

ResultOf(t) == tasks[t].result[1]

\* The tasks whose query was answered with status 200.
Answered == {t \in Done : tasks[t].r # <<>> /\ tasks[t].r[1].status_code = 200}

BodyOf(t) == tasks[t].r[1].body

HasSubcategory(m) == m.metadata.subcategory \notin {Absent, None, ""}

\* Positions of the matches that are neither the record itself nor unlabelled.
Kept(t) ==
  {i \in 1..Len(BodyOf(t)) :
     BodyOf(t)[i].id # tasks[t].conv.id /\ HasSubcategory(BodyOf(t)[i])}

\* The first five of them, in the endpoint's order.
Voters(t) == {i \in Kept(t) : Cardinality({j \in Kept(t) : j < i}) < 5}

\* The votes: each subcategory among the voters, with its number of voters.
SubVotes(t) ==
  LET body == BodyOf(t)
      v    == Voters(t)
  IN [l \in {body[i].metadata.subcategory : i \in v} |->
        Cardinality({i \in v : body[i].metadata.subcategory = l})]

\* The position at which each voted subcategory is first seen.
FirstVote(t) ==
  LET body == BodyOf(t)
      v    == Voters(t)
  IN [l \in {body[i].metadata.subcategory : i \in v} |->
        CHOOSE i \in v :
          /\ body[i].metadata.subcategory = l
          /\ \A j \in v : body[j].metadata.subcategory = l => i <= j]

\* The category a match votes for: General when it carries none.
CategoryOf(m) ==
  IF m.metadata.category = Absent THEN "General" ELSE m.metadata.category

\* The votes: each category among the voters, with its number of voters.
CatVotes(t) ==
  LET body == BodyOf(t)
      v    == Voters(t)
  IN [l \in {CategoryOf(body[i]) : i \in v} |->
        Cardinality({i \in v : CategoryOf(body[i]) = l})]

\* The position at which each voted category is first seen.
FirstCatVote(t) ==
  LET body == BodyOf(t)
      v    == Voters(t)
  IN [l \in {CategoryOf(body[i]) : i \in v} |->
        CHOOSE i \in v :
          /\ CategoryOf(body[i]) = l
          /\ \A j \in v : CategoryOf(body[j]) = l => i <= j]

IsFallback(res) ==
  res.pred_cat = "General" /\ res.pred_sub = "Other" /\ res.err = NoMatchesTag

\* The drained results, in drain order.
DrainedResults == [i \in 1..Len(drained) |-> ResultOf(drained[i])]

ErrorSet(res) == res.err # None

RECURSIVE SumOver(_, _)
SumOver(table, keys) ==
  IF keys = {} THEN 0
  ELSE LET k == CHOOSE x \in keys : TRUE IN table[k] + SumOver(table, keys \ {k})

Sum(table) == SumOver(table, DOMAIN table)

ZeroMatchDrained == {i \in 1..Len(drained) : drained[i] \in Answered /\ Kept(drained[i]) = {}}

AllAttemptsRaised == {t \in Done : tasks[t].r = <<>>}

Responded == {t \in TaskIds : tasks[t].r # <<>>}

ErrorTags ==
  {"exception:" \o e : e \in ExcKinds}
  \cup {"error:" \o ToString(st) : st \in FailureStatuses}
  \cup {"no_response"}

DrainedErrors == {i \in 1..Len(drained) : ErrorSet(DrainedResults[i])}

DrainedOk == (1..Len(drained)) \ DrainedErrors

SubPair(res) == <<res.conv.subcategory, res.pred_sub>>

CatPair(res) == <<res.conv.category, res.pred_cat>>

LastRequestFailed == requests # <<>> /\ ~requests[Len(requests)].ok

InUnitInterval(acc, correct) ==
  /\ acc.den > 0
  /\ 0 <= acc.num /\ acc.num <= acc.den
  /\ 0 <= correct /\ correct <= total
  /\ acc.num * total = correct * acc.den
  /\ total = 0 => acc.num = 0

BulkReadsSucceeded == pc = "dispatch"

\* The tasks whose query failed: no response at all, or a failure status.
FailedQueries == {t \in Done : tasks[t].r = <<>> \/ tasks[t].r[1].status_code # 200}

SummaryWritten ==
  /\ pc = "done"
  /\ files # <<>>
  /\ summary # <<>>
  /\ summary[1].sample_size = Len(tasks)
  /\ summary[1].errors >= Cardinality(FailedQueries)

-----------------------------------------------------------------------------
(* C1: a drained result whose query succeeded with zero matches left after *)
(* filtering counts as a classification: it is in total but not in errors, *)
(* its General/Other prediction is compared with the true labels, and the  *)
(* pair (true -> predicted) is in both confusion tables.                   *)

ZeroMatchIsClassification ==
  /\ total = Len(drained)
  /\ errors <= Len(drained) - Cardinality(ZeroMatchDrained)
  /\ correct_cat >= Cardinality({i \in ZeroMatchDrained :
                                   tasks[drained[i]].conv.category = "General"})
  /\ \A i \in ZeroMatchDrained :
       /\ <<tasks[drained[i]].conv.subcategory, "Other">> \in DOMAIN conf
       /\ <<tasks[drained[i]].conv.category, "General">> \in DOMAIN cat_conf

-----------------------------------------------------------------------------
(* C2: a classify call on which every attempt raised a transport exception *)
(* made exactly 3 attempts, slept 1s then 2s (nothing after the third) and *)
(* returned exception:<kind of the last exception> with both predictions   *)
(* null.                                                                   *)

ExhaustedAfterThreeAttempts ==
  \A t \in AllAttemptsRaised :
    /\ tasks[t].posts = 3
    /\ tasks[t].sleeps = <<1, 2>>
    /\ tasks[t].exc # <<>>
    /\ ResultOf(t).err = "exception:" \o tasks[t].exc[1]
    /\ ResultOf(t).pred_cat = None
    /\ ResultOf(t).pred_sub = None

ExhaustedWitness ==
  \E t \in AllAttemptsRaised :
    tasks[t].posts = 3 /\ ResultOf(t).err = "exception:Timeout"

-----------------------------------------------------------------------------
(* C3: a response ends the attempts: once any attempt has returned, the    *)
(* call is over with no attempt beyond that one (every earlier attempt     *)
(* raised and slept), and a failure status gives error:<status> with no    *)
(* prediction; a 500 on the first attempt means exactly one attempt.       *)

FailureStatusNotRetried ==
  \A t \in Responded :
    /\ tasks[t].state = "done"
    /\ tasks[t].posts = Len(tasks[t].sleeps) + 1
    /\ tasks[t].r[1].status_code # 200 =>
         /\ ResultOf(t).err = "error:" \o ToString(tasks[t].r[1].status_code)
         /\ ResultOf(t).pred_cat = None
         /\ ResultOf(t).pred_sub = None
    /\ (tasks[t].r[1].status_code = 500 /\ tasks[t].sleeps = <<>>) =>
         (tasks[t].posts = 1 /\ ResultOf(t).err = "error:500")

FailureStatusWitness ==
  \E t \in Responded :
    /\ tasks[t].r[1].status_code = 500
    /\ tasks[t].posts = 1
    /\ ResultOf(t).err = "error:500"

-----------------------------------------------------------------------------
(* C4: every result classify returns has exactly one of (predictions,      *)
(* error) populated: error null and both predictions non-null, or error    *)
(* one of exception:<kind>, error:<status>, no_response and both           *)
(* predictions null.                                                       *)

ExactlyOnePopulated ==
  \A t \in Done :
    \/ /\ ResultOf(t).err = None
       /\ ResultOf(t).pred_cat # None
       /\ ResultOf(t).pred_sub # None
    \/ /\ ResultOf(t).err \in ErrorTags
       /\ ResultOf(t).pred_cat = None
       /\ ResultOf(t).pred_sub = None

-----------------------------------------------------------------------------
(* C5: with a non-empty list of retained matches, the predicted            *)
(* subcategory has the highest count among them, and among the labels      *)
(* sharing that count it is the one first seen in the endpoint's order.    *)

MajorityFirstSeen ==
  \A t \in Answered :
    LET votes == SubVotes(t)
        first == FirstVote(t)
        pred  == ResultOf(t).pred_sub
    IN DOMAIN votes # {} =>
         /\ pred \in DOMAIN votes
         /\ \A l \in DOMAIN votes :
              /\ votes[l] <= votes[pred]
              /\ votes[l] = votes[pred] => first[pred] <= first[l]

\* A tie [Pricing, Bug, Bug, Pricing] resolved to Pricing, the first seen.
MajorityTieWitness ==
  \E t \in Answered :
    /\ Len(BodyOf(t)) = 4
    /\ DOMAIN SubVotes(t) = {"Pricing", "Bug"}
    /\ SubVotes(t)["Pricing"] = 2
    /\ SubVotes(t)["Bug"] = 2
    /\ FirstVote(t)["Pricing"] < FirstVote(t)["Bug"]
    /\ ResultOf(t).pred_sub = "Pricing"

-----------------------------------------------------------------------------
(* C6: the voters are the first 5 matches left after removing the record's *)
(* own id and the matches without subcategory: a removed match takes no    *)
(* slot and casts no vote, and an answer with nothing left (the self-match *)
(* alone, say) gives the fallback General/Other.                           *)

VotersAreFirstFiveKept ==
  \A t \in Answered :
    LET votes == SubVotes(t)
        res   == ResultOf(t)
    IN /\ DOMAIN votes = {} <=> IsFallback(res)
       /\ DOMAIN votes # {} =>
            /\ res.err = None
            /\ res.pred_sub \in DOMAIN votes
            /\ \A l \in DOMAIN votes : votes[l] <= votes[res.pred_sub]

\* Five removed matches before one labelled neighbour: it still votes.
FilterBeforeTruncateWitness ==
  \E t \in Answered :
    /\ Len(BodyOf(t)) = 6
    /\ Kept(t) = {6}
    /\ ResultOf(t).pred_sub = BodyOf(t)[6].metadata.subcategory
    /\ ResultOf(t).err = None

\* The self-match alone falls back to General/Other.
SelfMatchOnlyWitness ==
  \E t \in Answered :
    /\ Len(BodyOf(t)) = 1
    /\ BodyOf(t)[1].id = tasks[t].conv.id
    /\ IsFallback(ResultOf(t))

-----------------------------------------------------------------------------
(* C7: after any number of drained results, total is their number, errors  *)
(* the number of those with error set; each confusion table holds exactly  *)
(* one count per drained result without error, at (true -> predicted),     *)
(* and nothing for a result with error; so total = errors + the sum of     *)
(* either table, and neither correct count exceeds total - errors.         *)

AggregatesMatchDrained ==
  /\ total = Len(drained)
  /\ errors = Cardinality(DrainedErrors)
  /\ DOMAIN conf = {SubPair(DrainedResults[i]) : i \in DrainedOk}
  /\ \A k \in DOMAIN conf :
       conf[k] = Cardinality({i \in DrainedOk : SubPair(DrainedResults[i]) = k})
  /\ DOMAIN cat_conf = {CatPair(DrainedResults[i]) : i \in DrainedOk}
  /\ \A k \in DOMAIN cat_conf :
       cat_conf[k] = Cardinality({i \in DrainedOk : CatPair(DrainedResults[i]) = k})
  /\ total = errors + Sum(conf)
  /\ total = errors + Sum(cat_conf)
  /\ correct_sub <= total - errors
  /\ correct_cat <= total - errors

\* An error and a wrong prediction have both been drained.
AggregatesWitness ==
  /\ total = 2
  /\ errors = 1
  /\ correct_sub = 0
  /\ Sum(conf) = 1

-----------------------------------------------------------------------------
(* C8: each accuracy of the summary is correct / total with                *)
(* 0 <= correct <= total, so it lies in [0, 1]; with total = 0 it is 0 and *)
(* nothing is divided: the run never ends in a division by zero.           *)

AccuracyInUnitInterval ==
  /\ pc = "aborted" => LastRequestFailed
  /\ summary # <<>> =>
       /\ summary[1].sample_size = total
       /\ InUnitInterval(summary[1].accuracy_sub, correct_sub)
       /\ InUnitInterval(summary[1].accuracy_cat, correct_cat)

\* A summary over an empty sample.
EmptySampleWitness ==
  /\ summary # <<>>
  /\ total = 0
  /\ summary[1].accuracy_sub.num = 0

-----------------------------------------------------------------------------
(* C9: once the bulk reads have succeeded the run eventually writes the    *)
(* summary, whatever the similarity queries do: it covers every submitted  *)
(* task, and every failed query is counted in its errors.                  *)

SummaryAlwaysWritten == BulkReadsSucceeded ~> SummaryWritten

\* A finished run in which one query exhausted its attempts and another was
\* answered with a failure status.
SummaryDespiteFailures ==
  /\ SummaryWritten
  /\ errors = 2
  /\ \E t \in Done : tasks[t].r = <<>> /\ tasks[t].posts = 3
  /\ \E t \in Done : tasks[t].r # <<>> /\ tasks[t].r[1].status_code = 500

-----------------------------------------------------------------------------
(* C10: a failed page read or embedding batch read is the last request of  *)
(* the run and the only one for its offset: the run is aborted, no task is *)
(* ever submitted and no report is written.                                *)

BulkReadFailureIsFatal ==
  \A i \in 1..Len(requests) :
    ~requests[i].ok =>
      /\ i = Len(requests)
      /\ \A j \in 1..Len(requests) :
           (requests[j].kind = requests[i].kind /\ requests[j].at = requests[i].at)
             => j = i
      /\ pc = "aborted"
      /\ tasks = <<>>
      /\ drained = <<>>
      /\ summary = <<>>
      /\ files = <<>>

\* The second embedding batch failed after the first one was read.
LateBatchFailureWitness ==
  /\ pc = "aborted"
  /\ LastRequestFailed
  /\ requests[Len(requests)].kind = "embedding"
  /\ requests[Len(requests)].at > 0
  /\ embeddings # <<>>

-----------------------------------------------------------------------------
(* Vocabulary of the loader and sampler properties.                        *)

\* The sampler has returned and its sample has not been filtered yet.
Sampled == pc \in {"embed", "dispatch"}

\* The positions of seq holding a record of subcategory g.
GroupOf(seq, g) == {i \in 1..Len(seq) : seq[i].subcategory = g}

SubcategoriesOf(seq) == {seq[i].subcategory : i \in 1..Len(seq)}

\* A raw text field that is not empty once trimmed.
HasText(raw) == raw # None /\ \E i \in 1..Len(raw) : raw[i] # WS

\* The ids of the stored rows the loader has to return.
LabeledIds == {store[i].id : i \in {j \in 1..Len(store) : HasText(store[j].subcategory)}}

RowOfId(id) == store[CHOOSE i \in 1..Len(store) : store[i].id = id]

PageRequests == SelectSeq(requests, LAMBDA q : q.kind = "page")

\* fetch_labeled_metadata has returned its list.
LoaderReturned == pc \notin {"load", "aborted"}

\* Offsets 0, B, 2B, ...; a page is asked for only after full pages; the
\* loader returns after the first page that is not full, with every row that
\* has a subcategory once, in id order, its category General when blank.
LoaderSafe ==
  LET pages == PageRequests IN
  /\ \A i \in 1..Len(pages) : pages[i].at = (i - 1) * PageSize
  /\ \A i \in 1..(Len(pages) - 1) :
       pages[i].ok /\ Len(Page(store, pages[i].at, PageSize)) = PageSize
  /\ pc = "load" => offset = Len(pages) * PageSize /\ offset <= Len(store)
  /\ LoaderReturned =>
       /\ Len(pages) = (Len(store) \div PageSize) + 1
       /\ pages[Len(pages)].ok
       /\ Len(Page(store, pages[Len(pages)].at, PageSize)) < PageSize
       /\ {items[i].id : i \in 1..Len(items)} = LabeledIds
       /\ \A i, j \in 1..Len(items) : i < j => items[i].id < items[j].id
       /\ \A i \in 1..Len(items) :
            LET row == RowOfId(items[i].id) IN
            /\ items[i].subcategory = StripOrEmpty(row.subcategory)
            /\ items[i].subcategory # ""
            /\ items[i].category # ""
            /\ items[i].category = IF HasText(row.category)
                                   THEN StripOrEmpty(row.category)
                                   ELSE "General"

-----------------------------------------------------------------------------
(* C11: for every labelled list and every requested count n, the sample    *)
(* holds of each subcategory group g all |g| records when n <= 0 or        *)
(* |g| <= n and exactly n of them otherwise; every sampled record is an    *)
(* input record, under a subcategory of the input, and none is there twice.*)

SampleSizesExact ==
  Sampled =>
    LET n == args.sample_per_sub IN
    /\ \A g \in SubcategoriesOf(items) :
         LET size == Cardinality(GroupOf(items, g))
             got  == Cardinality(GroupOf(sample, g))
         IN got = IF n <= 0 \/ size <= n THEN size ELSE n
    /\ SubcategoriesOf(sample) \subseteq SubcategoriesOf(items)
    /\ \A i \in 1..Len(sample) : sample[i] \in Range(items)
    /\ \A i, j \in 1..Len(sample) : sample[i].id = sample[j].id => i = j

\* Two of three Pricing records drawn, the single Bug record kept.
SampleDrawWitness ==
  /\ Sampled
  /\ args.sample_per_sub = 2
  /\ Cardinality(GroupOf(items, "Pricing")) = 3
  /\ Cardinality(GroupOf(sample, "Pricing")) = 2
  /\ Cardinality(GroupOf(items, "Bug")) = 1
  /\ Cardinality(GroupOf(sample, "Bug")) = 1

-----------------------------------------------------------------------------
(* C13: on a store of N rows with page size B the loader asks for offsets  *)
(* 0, B, 2B, ... in order, goes on after every full page (even one whose   *)
(* rows are all skipped) and stops after the first page that is empty or   *)
(* short, so it always terminates; it returns every row whose trimmed      *)
(* subcategory is non-empty exactly once, with category General when       *)
(* blank, and no record with an empty subcategory or category.             *)

LoaderTerminates == []LoaderSafe /\ <>(pc # "load")

\* A full first page whose rows are all skipped, then a labelled row.
SkippedPageWitness ==
  /\ LoaderReturned
  /\ Len(store) > PageSize
  /\ \A i \in 1..PageSize : ~HasText(store[i].subcategory)
  /\ items # <<>>
  /\ \E i \in 1..Len(items) : items[i].category = "General"

-----------------------------------------------------------------------------
(* Vocabulary of the pool properties.                                      *)

\* The aggregate counters and both confusion tables.
Counters == <<total, errors, correct_sub, correct_cat, conf, cat_conf>>

\* A pool thread moves: some submitted task changes.
ThreadStep == \E t \in TaskIds : tasks'[t] # tasks[t]

\* The coordinating thread takes one finished, undrained future.
DriverDrains ==
  /\ pc = "drain"
  /\ \E t \in Done : t \notin Range(drained) /\ drained' = Append(drained, t)
  /\ total' = total + 1
  /\ UNCHANGED poolVars

\* The tasks a thread has taken and not finished.
InProgress == {t \in TaskIds : tasks[t].state \in {"running", "sleeping"}}

Sleeping == {t \in TaskIds : tasks[t].state = "sleeping"}

-----------------------------------------------------------------------------
(* C14: in every interleaving, a step that changes a counter or a          *)
(* confusion table is one step of the coordinating thread draining one     *)
(* finished result, and no step of a pool thread (start, attempt, backoff, *)
(* return) changes any of them: writes to the aggregates never overlap.    *)

AggregatesWrittenByDriverOnly ==
  [][/\ Counters' # Counters => DriverDrains
     /\ ThreadStep => UNCHANGED aggVars]_vars

\* A result has been drained while another task sleeps in its backoff.
DrainWhileSleepingWitness ==
  /\ total = 1
  /\ Len(drained) = 1
  /\ \E t \in TaskIds : tasks[t].state = "sleeping"

-----------------------------------------------------------------------------
(* C15: at most max_workers tasks are in progress (attempting or sleeping) *)
(* at any moment; a thread leaves its task only when the task is done;     *)
(* while a thread sleeps in its backoff every other running thread can     *)
(* still get a response or an exception, an idle thread can still start    *)
(* the next pending task, and the sleeper itself can wake.                 *)

PoolBoundedSleepLocal ==
  /\ [](/\ workers = InProgress
        /\ Cardinality(InProgress) <= args.max_workers
        /\ \A t \in Sleeping :
             /\ \A u \in Running :
                  /\ ENABLED PostResponds(u, Response(200, <<>>))
                  /\ ENABLED PostRaises(u, "Timeout")
             /\ (Pending # {} /\ Cardinality(InProgress) < args.max_workers)
                  => ENABLED Start
             /\ ENABLED Wake(t))
  /\ [][\A t \in workers : t \notin workers' => tasks'[t].state = "done"]_vars

\* Both threads busy, one of them asleep.
SleeperBesideRunnerWitness ==
  /\ args.max_workers = 2
  /\ Sleeping # {}
  /\ Running # {}
  /\ Cardinality(InProgress) = 2

-----------------------------------------------------------------------------
(* Vocabulary of the dispatch properties.                                  *)

\* The sample main drew, before the records without embedding are dropped.
DrawnSample ==
  IF args.full THEN items
  ELSE sample_by_subcategory(items, args.sample_per_sub, Seed)

\* The stored row of the id carries an embedding that is not falsy.
HasEmbedding(id) == RowOfId(id).embedding \notin {None, "", "[]"}

\* The positions of the drawn sample whose record has an embedding.
Embedded(drawn) == {i \in 1..Len(drawn) : HasEmbedding(drawn[i].id)}

\* The futures have been submitted.
Dispatched == pc \in {"drain", "summarize", "done"}

-----------------------------------------------------------------------------
(* C16: exactly one task is submitted for each sampled record that has an  *)
(* embedding and none for a record whose embedding is missing or falsy;    *)
(* each task has one result once done and is drained at most once, and all *)
(* are drained at the end, so the final total and the reported sample_size *)
(* are the number of sampled records with an embedding.                    *)

OneTaskPerEmbeddedRecord ==
  LET drawn == DrawnSample IN
  /\ tasks # <<>> => Dispatched
  /\ Dispatched =>
       /\ \A i \in 1..Len(drawn) :
            Cardinality({t \in TaskIds : tasks[t].conv.id = drawn[i].id})
              = IF i \in Embedded(drawn) THEN 1 ELSE 0
       /\ \A t \in TaskIds :
            /\ \E i \in 1..Len(drawn) : drawn[i].id = tasks[t].conv.id
            /\ tasks[t].conv.embedding = RowOfId(tasks[t].conv.id).embedding
  /\ \A t \in TaskIds :
       /\ Len(tasks[t].result) <= 1
       /\ tasks[t].state = "done" <=> tasks[t].result # <<>>
  /\ \A i \in 1..Len(drained) :
       /\ drained[i] \in Done
       /\ \A j \in 1..Len(drained) : drained[i] = drained[j] => i = j
  /\ pc \in {"summarize", "done"} =>
       /\ Range(drained) = TaskIds
       /\ total = Cardinality(Embedded(drawn))
  /\ summary # <<>> => summary[1].sample_size = Cardinality(Embedded(drawn))

\* Three records sampled, one of them without embedding: two are evaluated.
DroppedRecordWitness ==
  /\ pc = "done"
  /\ Len(DrawnSample) = 3
  /\ Cardinality(Embedded(DrawnSample)) = 2
  /\ summary[1].sample_size = 2

-----------------------------------------------------------------------------
(* Vocabulary of the embedding fetch properties.                           *)

EmbRequests == SelectSeq(requests, LAMBDA q : q.kind = "embedding")

\* fetch_embeddings_for_ids has returned and the sample is not filtered yet.
EmbeddingsFetched == pc = "dispatch"

\* The lookups whose batch holds position i of the id list.
BatchesHolding(lookups, i) ==
  {k \in 1..Len(lookups) : lookups[k].at < i /\ i <= lookups[k].at + EmbBatch}

-----------------------------------------------------------------------------
(* C17: the lookups of the embedding fetcher are at positions 0, S, 2S,    *)
(* ... of the id list, each batch holding between 1 and S ids; when the    *)
(* fetcher returns every id is in exactly one batch (no lookup for an      *)
(* empty list), and the mapping holds an id exactly when its returned row  *)
(* carries an embedding that is not falsy, with that embedding.            *)

BatchesPartitionIds ==
  LET lookups == EmbRequests
      n       == Len(sample)
  IN /\ pc \in {"embed", "dispatch"} =>
          /\ \A k \in 1..Len(lookups) :
               /\ lookups[k].at = (k - 1) * EmbBatch
               /\ lookups[k].at < n
               /\ lookups[k].ok
          /\ pc = "embed" => chunkStart = Len(lookups) * EmbBatch
     /\ EmbeddingsFetched =>
          /\ \A i \in 1..n : Cardinality(BatchesHolding(lookups, i)) = 1
          /\ n = 0 => lookups = <<>>
          /\ DOMAIN embeddings = {sample[i].id : i \in Embedded(sample)}
          /\ \A id \in DOMAIN embeddings : embeddings[id] = RowOfId(id).embedding

\* Three ids in two batches, one of them without embedding.
TwoBatchesWitness ==
  /\ EmbeddingsFetched
  /\ Len(sample) = 3
  /\ Len(EmbRequests) = 2
  /\ Cardinality(DOMAIN embeddings) = 2

-----------------------------------------------------------------------------
(* C18: whatever each attempt does (return a response or raise), classify  *)
(* never returns no_response: a finished call either obtained a response   *)
(* within its 3 attempts or returned exception:<kind> when the third       *)
(* attempt raised.                                                         *)

NoResponseUnreachable ==
  \A t \in Done :
    /\ ResultOf(t).err # "no_response"
    /\ tasks[t].posts \in 1..3
    /\ \/ tasks[t].r # <<>>
       \/ /\ tasks[t].posts = 3
          /\ tasks[t].exc # <<>>
          /\ ResultOf(t).err = "exception:" \o tasks[t].exc[1]

\* Two attempts raised and the third one was answered.
ThirdAttemptAnsweredWitness ==
  \E t \in Done :
    /\ tasks[t].posts = 3
    /\ tasks[t].sleeps = <<1, 2>>
    /\ tasks[t].r # <<>>
    /\ ResultOf(t).err # "no_response"

-----------------------------------------------------------------------------
(* C19: with a non-empty list of retained matches, the predicted category  *)
(* has the highest count among the categories of the same voters, a voter  *)
(* without category counting for General, and among the categories sharing *)
(* that count it is the one first seen; the subcategory vote plays no part *)
(* in it.                                                                  *)

CategoryMajorityIndependent ==
  \A t \in Answered :
    LET votes == CatVotes(t)
        first == FirstCatVote(t)
        pred  == ResultOf(t).pred_cat
    IN DOMAIN votes # {} =>
         /\ pred \in DOMAIN votes
         /\ \A l \in DOMAIN votes :
              /\ votes[l] <= votes[pred]
              /\ votes[l] = votes[pred] => first[pred] <= first[l]

\* The winning category is carried by no voter of the winning subcategory,
\* and a voter without category has counted for General.
IndependentWinnerWitness ==
  \E t \in Answered :
    /\ DOMAIN CatVotes(t) # {}
    /\ "General" \in DOMAIN CatVotes(t)
    /\ \A i \in Voters(t) :
         BodyOf(t)[i].metadata.subcategory = ResultOf(t).pred_sub
           => CategoryOf(BodyOf(t)[i]) # ResultOf(t).pred_cat

-----------------------------------------------------------------------------
(* Vocabulary of the scheduling property.                                  *)

\* The aggregates before the first result.
ZeroAggregates ==
  [total |-> 0, errors |-> 0, correct_sub |-> 0, correct_cat |-> 0,
   conf |-> <<>>, cat_conf |-> <<>>]

\* The results of the tasks from t on, tallied in submission order.
RECURSIVE TallyInSubmissionOrder(_, _)
TallyInSubmissionOrder(agg, t) ==
  IF t > Len(tasks) THEN agg
  ELSE TallyInSubmissionOrder(Tally(agg, ResultOf(t)), t + 1)

\* The loop over as_completed has ended.
AllDrained == pc \in {"summarize", "done"}

-----------------------------------------------------------------------------
(* C20: when all results are drained, the counters and both confusion      *)
(* tables are those obtained by tallying the same per-record results in    *)
(* submission order: the completion order and the number of workers leave  *)
(* no trace in them.                                                       *)

AggregatesScheduleFree ==
  AllDrained => Aggregates = TallyInSubmissionOrder(ZeroAggregates, 1)

\* Two threads, the second task drained first, one error and one right
\* prediction.
OutOfOrderDrainWitness ==
  /\ pc = "done"
  /\ args.max_workers = 2
  /\ Len(drained) = 2
  /\ drained[1] > drained[2]
  /\ errors = 1
  /\ correct_sub = 1

====
